---------------------------- MODULE Spec2Model ----------------------------
(***************************************************************************)
(* Model of src/app.py, the Excel Assignment / Memo Line matcher.         *)
(*                                                                         *)
(* A cell value is a record: a missing value (NaN), a Python str (a       *)
(* sequence of one-character strings) or a Python int.  A DataFrame is a  *)
(* record [columns, rows]: the ordered column labels and the rows, each a *)
(* function from column label to cell value.  Row positions are 0-based   *)
(* in the program; position i is rows[i + 1] here.                        *)
(***************************************************************************)
EXTENDS Integers, Sequences, FiniteSets, TLC

VARIABLES
    pc,           \* which call comes next
    text,         \* argument of clean_and_normalize_text
    text_str,     \* what clean_and_normalize_text returned
    text_again,   \* what it returned when applied to text_str
    df,           \* the DataFrame the caller holds
    calls,        \* number of calls of find_assignment_matches made on df
    matches,      \* the list of matches (returned by the matcher, or given)
    filtered_df,  \* rows of the DataFrame create_filtered_output returned
    df_info,      \* generate_insights' second argument
    most_frequent,\* generate_insights' local most_frequent (line 154)
    insights,     \* what generate_insights returned
    validation,   \* what validate_excel_structure returned
    summary,      \* the Summary sheet of the output file written
    flashed       \* the message upload_file flashed

vars == <<pc, text, text_str, text_again, df, calls, matches, filtered_df,
          df_info, most_frequent, insights, validation, summary, flashed>>

----------------------------------------------------------------------------
(* Bounds *)

MaxLen == 4        \* longest str argument of clean_and_normalize_text
MaxInt == 12       \* largest int argument of clean_and_normalize_text
MaxRows == 3       \* most rows of a DataFrame
MaxCalls == 2      \* most calls of find_assignment_matches on one DataFrame
MaxMatches == 3    \* longest match list handed to the output builder / insights
MaxTotalRows == 2  \* largest df_info['total_rows']
MaxCols == 3       \* most columns of a DataFrame handed to the validator

----------------------------------------------------------------------------
(* Cell values and text *)

NaN == [kind |-> "nan", s |-> <<>>, n |-> 0]
StrVal(s) == [kind |-> "str", s |-> s, n |-> 0]
IntVal(n) == [kind |-> "int", s |-> <<>>, n |-> n]

\* The characters Python's str.isspace / the regex class \s accept, as far as
\* the model's alphabet goes.
Whitespace == {" ", "\t"}

Chars == {"a", "A", "7"} \cup Whitespace

IsSpace(c) == c \in Whitespace

\* str.lower() on one character of the alphabet.
LowerChar(c) == IF c = "A" THEN "a" ELSE IF c = "B" THEN "b" ELSE c

lower(s) == [i \in 1..Len(s) |-> LowerChar(s[i])]

Digit(d) == CASE d = 0 -> "0" [] d = 1 -> "1" [] d = 2 -> "2" [] d = 3 -> "3"
              [] d = 4 -> "4" [] d = 5 -> "5" [] d = 6 -> "6" [] d = 7 -> "7"
              [] d = 8 -> "8" [] d = 9 -> "9"

RECURSIVE IntToStr(_)
IntToStr(n) == IF n < 10 THEN <<Digit(n)>>
               ELSE Append(IntToStr(n \div 10), Digit(n % 10))

\* pd.isna(text), line 50.
isna(v) == v.kind = "nan"

\* str(text), line 54: a str is itself, an int is its decimal digits.
str(v) == IF v.kind = "str" THEN v.s ELSE IntToStr(v.n)

RECURSIVE lstrip(_)
lstrip(s) == IF s # <<>> /\ IsSpace(Head(s)) THEN lstrip(Tail(s)) ELSE s

RECURSIVE rstrip(_)
rstrip(s) == IF s # <<>> /\ IsSpace(s[Len(s)]) THEN rstrip(SubSeq(s, 1, Len(s) - 1)) ELSE s

\* str.strip(), line 54.
strip(s) == rstrip(lstrip(s))

\* re.sub(r'\s+', ' ', s), line 57: scanning left to right, each maximal run
\* of whitespace is replaced by one space.
RECURSIVE re_sub_spaces(_)
re_sub_spaces(s) ==
    IF s = <<>> THEN <<>>
    ELSE IF IsSpace(Head(s)) THEN <<" ">> \o re_sub_spaces(lstrip(s))
    ELSE <<Head(s)>> \o re_sub_spaces(Tail(s))

\* Faulty variant: the run is deleted instead of being replaced by a space.
clean_and_normalize_text_drop(v) ==
    IF isna(v) THEN <<>>
    ELSE SelectSeq(strip(str(v)), LAMBDA c : ~IsSpace(c))

\* clean_and_normalize_text, lines 48-59.
clean_and_normalize_text(v) ==
    IF isna(v) THEN <<>>
    ELSE re_sub_spaces(strip(str(v)))

----------------------------------------------------------------------------
(* Values the other variables hold while a specification does not use them *)

NoFrame == [columns |-> <<>>, rows |-> <<>>]
NoInfo == [total_rows |-> 0]
NoPair == <<NaN, 0>>
NoInsights == [kind |-> "none"]
NoValidation == [ok |-> FALSE, kind |-> "none", missing |-> <<>>, available |-> <<>>]
NoSummary == [written |-> FALSE, total_input_rows |-> 0, total_matches |-> 0, output_rows |-> 0]

----------------------------------------------------------------------------
(* The text normalizer on its own: clean_and_normalize_text applied to an  *)
(* arbitrary cell value and then to its own result.                        *)

RECURSIVE StringsUpTo(_)
StringsUpTo(k) ==
    IF k = 0 THEN {<<>>}
    ELSE LET shorter == StringsUpTo(k - 1)
         IN shorter \cup {Append(s, c) : s \in {t \in shorter : Len(t) = k - 1}, c \in Chars}

TextValues ==
    {NaN} \cup {StrVal(s) : s \in StringsUpTo(MaxLen)} \cup {IntVal(n) : n \in 0..MaxInt}

InitNormalize ==
    /\ pc = "normalize"
    /\ text \in TextValues
    /\ text_str = <<>>
    /\ text_again = <<>>
    /\ df = NoFrame
    /\ calls = 0
    /\ matches = <<>>
    /\ filtered_df = <<>>
    /\ df_info = NoInfo
    /\ most_frequent = NoPair
    /\ insights = NoInsights
    /\ validation = NoValidation
    /\ summary = NoSummary
    /\ flashed = "nothing"

Normalize ==
    /\ pc = "normalize"
    /\ text_str' = clean_and_normalize_text(text)
    /\ pc' = "renormalize"
    /\ UNCHANGED <<text, text_again, df, calls, matches, filtered_df, df_info,
                   most_frequent, insights, validation, summary, flashed>>

NormalizeAgain ==
    /\ pc = "renormalize"
    /\ text_again' = clean_and_normalize_text(StrVal(text_str))
    /\ pc' = "normalized"
    /\ UNCHANGED <<text, text_str, df, calls, matches, filtered_df, df_info,
                   most_frequent, insights, validation, summary, flashed>>

NextNormalize == Normalize \/ NormalizeAgain

SpecNormalize == InitNormalize /\ [][NextNormalize]_vars

\* The words of s: its maximal runs of non-whitespace characters, in order
\* (Python's s.split()).
RECURSIVE Words(_, _)
Words(s, word) ==
    IF s = <<>> THEN (IF word = <<>> THEN <<>> ELSE <<word>>)
    ELSE IF IsSpace(Head(s))
         THEN (IF word = <<>> THEN <<>> ELSE <<word>>) \o Words(Tail(s), <<>>)
         ELSE Words(Tail(s), Append(word, Head(s)))

\* The words joined by single spaces (Python's ' '.join(ws)).
RECURSIVE JoinWords(_)
JoinWords(ws) ==
    IF ws = <<>> THEN <<>>
    ELSE IF Len(ws) = 1 THEN ws[1]
    ELSE ws[1] \o <<" ">> \o JoinWords(Tail(ws))

NoEdgeSpace(r) == r = <<>> \/ (~IsSpace(r[1]) /\ ~IsSpace(r[Len(r)]))

SingleSpaces(r) ==
    \A i \in 1..Len(r) :
        IsSpace(r[i]) => (r[i] = " " /\ i < Len(r) /\ ~IsSpace(r[i + 1]))

\* C9: clean_and_normalize_text returns the empty string for a missing
\* value; for any other value it returns the value's string form with no
\* leading or trailing whitespace and every maximal run of whitespace
\* replaced by exactly one space; applied to its own result it returns that
\* result unchanged.
NormalizeIsTotalAndIdempotent ==
    /\ pc \in {"renormalize", "normalized"} =>
           /\ isna(text) => text_str = <<>>
           /\ ~isna(text) =>
                  /\ text_str = JoinWords(Words(str(text), <<>>))
                  /\ NoEdgeSpace(text_str)
                  /\ SingleSpaces(text_str)
                  /\ SelectSeq(text_str, LAMBDA c : ~IsSpace(c))
                        = SelectSeq(str(text), LAMBDA c : ~IsSpace(c))
    /\ pc = "normalized" => text_again = text_str

\* A str with leading whitespace and an inner run of two different
\* whitespace characters has been normalized, twice.
NormalizeWitness ==
    /\ pc = "normalized"
    /\ text.kind = "str"
    /\ Len(text.s) = 4
    /\ IsSpace(text.s[1]) /\ ~IsSpace(text.s[4])
    /\ text.s[2] = " " /\ text.s[3] = "\t"
    /\ text_str # text.s

----------------------------------------------------------------------------
(* DataFrames *)

\* len(df)
len(d) == Len(d.rows)

\* df.iloc[i]: the row at 0-based position i.
iloc(d, i) == d.rows[i + 1]

\* df[col] = df[src].apply(f): column col is added (or overwritten) with f
\* of each row's src cell; lines 70 and 71, where f is
\* clean_and_normalize_text and the new cells are Python strs.  (SubSeq
\* leaves the rows as they are and has them computed once.)
apply_into(d, col, src) ==
    [columns |-> IF \E k \in 1..Len(d.columns) : d.columns[k] = col
                 THEN d.columns ELSE Append(d.columns, col),
     rows |-> SubSeq([i \in 1..Len(d.rows) |->
                        (col :> StrVal(clean_and_normalize_text(d.rows[i][src]))) @@ d.rows[i]],
                     1, Len(d.rows))]

\* Faulty variant: df_clean = df, the same object under a second name.
copy_alias(heap, ref) == [heap |-> heap, ref |-> ref]

\* df.copy(), line 69: a new object holding the same data.  heap maps object
\* ids to DataFrames; the result names the grown heap and the new object.
copy(heap, ref) ==
    LET new == Cardinality(DOMAIN heap) + 1
    IN [heap |-> (new :> heap[ref]) @@ heap, ref |-> new]

----------------------------------------------------------------------------
(* find_assignment_matches, lines 61-105 *)

\* needle in hay (Python's substring test on strs).
in(needle, hay) ==
    \E i \in 0..(Len(hay) - Len(needle)) : SubSeq(hay, i + 1, i + Len(needle)) = needle

\* Faulty variant: the test compares the values as they are, case and all.
assignment_in_memo_cased(assignment_val, memo_val) == in(assignment_val, memo_val)

\* assignment_val.lower() in memo_val.lower(), line 95.
assignment_in_memo(assignment_val, memo_val) == in(lower(assignment_val), lower(memo_val))

\* Faulty variant: no row is skipped.
same_row_never(assign_idx, memo_idx) == FALSE

\* assign_idx == memo_idx, line 86.
same_row(assign_idx, memo_idx) == assign_idx = memo_idx

\* Faulty variant: the new match is put in front.
append_front(list, match) == <<match>> \o list

\* Faulty variant: the match is recorded in both directions.
append_both(list, match) ==
    list \o <<match, <<match[2], match[1], match[3], match[4]>>>>

\* matches.append(...), line 96.
append(list, match) == Append(list, match)

\* The inner loop, lines 85-102, from memo row memo_idx on.  d is df (the raw
\* cells), df_clean the copy with the two cleaned columns.
RECURSIVE memo_loop(_, _, _, _, _)
memo_loop(d, df_clean, assign_idx, memo_idx, acc) ==
    IF memo_idx >= len(df_clean) THEN acc
    ELSE LET assignment_val == iloc(df_clean, assign_idx)["Assignment_clean"].s
             memo_val == iloc(df_clean, memo_idx)["Memo Line_clean"].s
         IN IF same_row(assign_idx, memo_idx)
            THEN memo_loop(d, df_clean, assign_idx, memo_idx + 1, acc)
            ELSE IF memo_val = <<>>
            THEN memo_loop(d, df_clean, assign_idx, memo_idx + 1, acc)
            ELSE IF assignment_in_memo(assignment_val, memo_val)
            THEN memo_loop(d, df_clean, assign_idx, memo_idx + 1,
                           append(acc, <<assign_idx, memo_idx,
                                         iloc(d, assign_idx)["Assignment"],
                                         iloc(d, memo_idx)["Memo Line"]>>))
            ELSE memo_loop(d, df_clean, assign_idx, memo_idx + 1, acc)

\* The outer loop, lines 76-102, from assignment row assign_idx on.
RECURSIVE assignment_loop(_, _, _, _)
assignment_loop(d, df_clean, assign_idx, acc) ==
    IF assign_idx >= len(df_clean) THEN acc
    ELSE IF iloc(df_clean, assign_idx)["Assignment_clean"].s = <<>>
         THEN assignment_loop(d, df_clean, assign_idx + 1, acc)
         ELSE assignment_loop(d, df_clean, assign_idx + 1,
                              memo_loop(d, df_clean, assign_idx, 0, acc))

\* The call find_assignment_matches(d): what it returns, and what the
\* caller's DataFrame (object 1) holds afterwards.
find_assignment_matches(d) ==
    LET heap0 == (1 :> d)
        c == copy(heap0, 1)
        heap1 == [c.heap EXCEPT ![c.ref] = apply_into(@, "Assignment_clean", "Assignment")]
        heap2 == [heap1 EXCEPT ![c.ref] = apply_into(@, "Memo Line_clean", "Memo Line")]
    IN [df |-> heap2[1],
        matches |-> assignment_loop(heap2[1], heap2[c.ref], 0, <<>>)]

----------------------------------------------------------------------------
(* The matcher on its own: find_assignment_matches called, more than once, *)
(* on a DataFrame that has the two required columns.                       *)

\* Cell values of the DataFrames tried: a missing value, a str of whitespace
\* only, "a  B", " 7A\tb" (whose normal form contains "a b" up to case, and
\* "7") and the int 7.
BlankText == StrVal(<<" ", "\t">>)
ShortText == StrVal(<<"a", " ", " ", "B">>)
LongText == StrVal(<<" ", "7", "A", "\t", "b">>)
AssignmentValues == {NaN, BlankText, ShortText, IntVal(7)}
MemoValues == {NaN, BlankText, ShortText, LongText}

RequiredColumns == <<"Assignment", "Memo Line">>

MatcherRows ==
    {("Assignment" :> a) @@ ("Memo Line" :> m) : a \in AssignmentValues, m \in MemoValues}

\* d has the two required columns and at most MaxRows rows, of MatcherRows.
IsMatcherFrame(d) ==
    \E n \in 0..MaxRows : \E rows \in [1..n -> MatcherRows] :
        d = [columns |-> RequiredColumns, rows |-> rows]

InitMatcher ==
    /\ pc = "matcher"
    /\ IsMatcherFrame(df)
    /\ calls = 0
    /\ matches = <<>>
    /\ text = NaN
    /\ text_str = <<>>
    /\ text_again = <<>>
    /\ filtered_df = <<>>
    /\ df_info = NoInfo
    /\ most_frequent = NoPair
    /\ insights = NoInsights
    /\ validation = NoValidation
    /\ summary = NoSummary
    /\ flashed = "nothing"

FindMatches ==
    /\ pc = "matcher"
    /\ calls < MaxCalls
    /\ LET r == find_assignment_matches(df)
       IN /\ matches' = r.matches
          /\ df' = r.df
    /\ calls' = calls + 1
    /\ UNCHANGED <<pc, text, text_str, text_again, filtered_df, df_info,
                   most_frequent, insights, validation, summary, flashed>>

NextMatcher == FindMatches

SpecMatcher == InitMatcher /\ [][NextMatcher]_vars

\* The normal form of row i's cell in column col (i is 0-based).
Normal(d, i, col) == clean_and_normalize_text(iloc(d, i)[col])

\* needle occurs in hay: hay is some prefix, then needle, then some suffix.
Occurs(needle, hay) ==
    \E from \in 1..(Len(hay) + 1) : \E to \in (from - 1)..Len(hay) :
        SubSeq(hay, from, to) = needle

RowIndexes(d) == 0..(len(d) - 1)

MatchSet == {matches[k] : k \in 1..Len(matches)}

\* C1: find_assignment_matches never returns a match whose assignment row
\* index equals its memo row index.
NoSelfMatch ==
    (pc = "matcher" /\ calls >= 1) =>
        \A k \in 1..Len(matches) : matches[k][1] # matches[k][2]

\* Some row's own Memo Line contains its own Assignment, and matches were
\* found.
NoSelfMatchWitness ==
    /\ pc = "matcher" /\ calls >= 1
    /\ matches # <<>>
    /\ \E i \in RowIndexes(df) :
          /\ Normal(df, i, "Assignment") # <<>>
          /\ Occurs(lower(Normal(df, i, "Assignment")), lower(Normal(df, i, "Memo Line")))

\* C2: <<a, m, x, y>> is returned if and only if a # m, the normal forms of
\* row a's Assignment and row m's Memo Line are non-empty, the first occurs
\* in the second once both are lowercased, and x and y are the raw cells.
MatchesExactly ==
    (pc = "matcher" /\ calls >= 1) =>
        MatchSet =
            {<<a, m, iloc(df, a)["Assignment"], iloc(df, m)["Memo Line"]>> :
                <<a, m>> \in {p \in RowIndexes(df) \X RowIndexes(df) :
                    /\ p[1] # p[2]
                    /\ Normal(df, p[1], "Assignment") # <<>>
                    /\ Normal(df, p[2], "Memo Line") # <<>>
                    /\ Occurs(lower(Normal(df, p[1], "Assignment")),
                              lower(Normal(df, p[2], "Memo Line")))}}

\* A match was returned whose raw Assignment differs from its normal form
\* and does not occur as it is in the raw Memo Line.
MatchesExactlyWitness ==
    /\ pc = "matcher" /\ calls >= 1
    /\ \E k \in 1..Len(matches) :
          /\ matches[k][3].kind = "str" /\ matches[k][4].kind = "str"
          /\ matches[k][3].s # clean_and_normalize_text(matches[k][3])
          /\ ~Occurs(matches[k][3].s, matches[k][4].s)
          /\ ~Occurs(clean_and_normalize_text(matches[k][3]),
                     clean_and_normalize_text(matches[k][4]))

\* C3: the returned sequence is in ascending order of assignment row index
\* and, for equal assignment row index, ascending order of memo row index.
MatchesInScanOrder ==
    (pc = "matcher" /\ calls >= 1) =>
        \A j, k \in 1..Len(matches) :
            j < k => \/ matches[j][1] < matches[k][1]
                     \/ (matches[j][1] = matches[k][1] /\ matches[j][2] < matches[k][2])

\* Matches of two assignment rows, one of them with two memo rows.
MatchesInScanOrderWitness ==
    /\ pc = "matcher" /\ calls >= 1
    /\ \E j, k, l \in 1..Len(matches) :
          /\ matches[j][1] = matches[k][1] /\ matches[j][2] # matches[k][2]
          /\ matches[l][1] # matches[j][1]

\* C10: a call of find_assignment_matches leaves the DataFrame as it was,
\* and a second call on it returns the sequence the first one returned.
MatcherIsIdempotent ==
    [][(pc = "matcher" /\ calls' = calls + 1) =>
           /\ df' = df
           /\ calls >= 1 => matches' = matches]_vars

\* Two calls were made on a DataFrame with matches.
MatcherIsIdempotentWitness ==
    pc = "matcher" /\ calls = 2 /\ Len(matches) >= 2

\* Row a's Assignment is found in row m's Memo Line (a # m, both normal
\* forms non-empty, the first within the second once lowercased).
Found(d, a, m) ==
    /\ a # m
    /\ Normal(d, a, "Assignment") # <<>>
    /\ Normal(d, m, "Memo Line") # <<>>
    /\ Occurs(lower(Normal(d, a, "Assignment")), lower(Normal(d, m, "Memo Line")))

\* The positions of the returned sequence whose match joins rows a and m, in
\* either direction.
PositionsOf(a, m) ==
    {k \in 1..Len(matches) : {matches[k][1], matches[k][2]} = {a, m}}

\* C12: in the returned sequence every ordered index pair (a, m) occurs at
\* most once, so an unordered pair occurs at most twice, and twice only when
\* row a's Assignment is found in row m's Memo Line and row m's Assignment
\* is found in row a's Memo Line.
PairsOccurOncePerDirection ==
    (pc = "matcher" /\ calls >= 1) =>
        /\ \A j, k \in 1..Len(matches) :
              (j # k) => <<matches[j][1], matches[j][2]>> # <<matches[k][1], matches[k][2]>>
        /\ \A a, m \in RowIndexes(df) :
              /\ Cardinality(PositionsOf(a, m)) <= 2
              /\ Cardinality(PositionsOf(a, m)) = 2 => (Found(df, a, m) /\ Found(df, m, a))

\* One pair of rows was matched in both directions and another pair in one
\* direction only.
PairsOccurOncePerDirectionWitness ==
    /\ pc = "matcher" /\ calls >= 1
    /\ \E a, m \in RowIndexes(df) : Cardinality(PositionsOf(a, m)) = 2
    /\ \E a, m \in RowIndexes(df) :
          a # m /\ Cardinality(PositionsOf(a, m)) = 1 /\ ~Found(df, m, a)

----------------------------------------------------------------------------
(* create_filtered_output, lines 107-136 *)

Min(i, j) == IF i <= j THEN i ELSE j
Max(i, j) == IF i <= j THEN j ELSE i

\* Faulty variant: the key keeps the direction of the match.
pair_key_directed(assign_idx, memo_idx) == <<assign_idx, memo_idx>>

\* pair_key, line 117.
pair_key(assign_idx, memo_idx) == <<Min(assign_idx, memo_idx), Max(assign_idx, memo_idx)>>

\* Faulty variant: the memo row is appended first.
append_pair_memo_first(filtered_rows, d, assign_idx, memo_idx) ==
    filtered_rows \o <<iloc(d, memo_idx), iloc(d, assign_idx)>>

\* Lines 125-126: the assignment row, then the memo row.
append_pair(filtered_rows, d, assign_idx, memo_idx) ==
    filtered_rows \o <<iloc(d, assign_idx), iloc(d, memo_idx)>>

\* The loop of lines 116-128 from the k-th match on.
RECURSIVE output_loop(_, _, _, _, _)
output_loop(d, ms, k, processed_pairs, filtered_rows) ==
    IF k > Len(ms) THEN filtered_rows
    ELSE LET assign_idx == ms[k][1]
             memo_idx == ms[k][2]
         IN IF pair_key(assign_idx, memo_idx) \in processed_pairs
            THEN output_loop(d, ms, k + 1, processed_pairs, filtered_rows)
            ELSE output_loop(d, ms, k + 1,
                             processed_pairs \cup {pair_key(assign_idx, memo_idx)},
                             append_pair(filtered_rows, d, assign_idx, memo_idx))

\* pd.DataFrame(): no columns, no rows (lines 111 and 136).
EmptyFrame == [columns |-> <<>>, rows |-> <<>>]

create_filtered_output(d, ms) ==
    IF ms = <<>> THEN EmptyFrame
    ELSE LET filtered_rows == output_loop(d, ms, 1, {}, <<>>)
         IN IF filtered_rows # <<>>
            THEN [columns |-> d.columns, rows |-> filtered_rows]
            ELSE EmptyFrame

----------------------------------------------------------------------------
(* The output builder on its own: create_filtered_output applied to a      *)
(* DataFrame and an arbitrary list of matches between its rows.            *)

OutputRows ==
    {("Assignment" :> ShortText) @@ ("Memo Line" :> LongText),
     ("Assignment" :> IntVal(7)) @@ ("Memo Line" :> ShortText)}

\* d has the two required columns and at most MaxRows rows, of OutputRows.
IsOutputFrame(d) ==
    \E n \in 0..MaxRows : \E rows \in [1..n -> OutputRows] :
        d = [columns |-> RequiredColumns, rows |-> rows]

\* The matches there can be between two different rows of d.
MatchesOver(d) ==
    {<<a, m, iloc(d, a)["Assignment"], iloc(d, m)["Memo Line"]>> :
        <<a, m>> \in {p \in (0..(len(d) - 1)) \X (0..(len(d) - 1)) : p[1] # p[2]}}

RECURSIVE ListsUpTo(_, _)
ListsUpTo(S, k) ==
    IF k = 0 THEN {<<>>}
    ELSE LET shorter == ListsUpTo(S, k - 1)
         IN shorter \cup {Append(l, x) : l \in {t \in shorter : Len(t) = k - 1}, x \in S}

InitOutput ==
    /\ pc = "output"
    /\ IsOutputFrame(df)
    /\ matches \in ListsUpTo(MatchesOver(df), MaxMatches)
    /\ filtered_df = NoFrame
    /\ calls = 0
    /\ text = NaN
    /\ text_str = <<>>
    /\ text_again = <<>>
    /\ df_info = NoInfo
    /\ most_frequent = NoPair
    /\ insights = NoInsights
    /\ validation = NoValidation
    /\ summary = NoSummary
    /\ flashed = "nothing"

BuildOutput ==
    /\ pc = "output"
    /\ filtered_df' = create_filtered_output(df, matches)
    /\ pc' = "built"
    /\ UNCHANGED <<text, text_str, text_again, df, calls, matches, df_info,
                   most_frequent, insights, validation, summary, flashed>>

NextOutput == BuildOutput

SpecOutput == InitOutput /\ [][NextOutput]_vars

\* The unordered pair of rows of a match.
PairOf(match) == {match[1], match[2]}

\* The positions in the match list at which an unordered pair occurs first.
FirstOccurrences ==
    {k \in 1..Len(matches) : \A j \in 1..(k - 1) : PairOf(matches[j]) # PairOf(matches[k])}

\* C4: the output is one block of two consecutive rows per distinct
\* unordered pair, in the order in which the pairs first occur in the match
\* list: the row at the first such match's assignment index, then the row at
\* its memo index.  Later matches of a pair add nothing.
OutputIsFirstSeenPairs ==
    pc = "built" =>
        /\ Len(filtered_df.rows) = 2 * Cardinality(FirstOccurrences)
        /\ \A k \in FirstOccurrences :
              LET block == Cardinality({j \in FirstOccurrences : j <= k})
              IN /\ filtered_df.rows[2 * block - 1] = iloc(df, matches[k][1])
                 /\ filtered_df.rows[2 * block] = iloc(df, matches[k][2])

\* A pair matched in both directions, the second direction first seen after
\* another pair, on rows that differ.
OutputIsFirstSeenPairsWitness ==
    /\ pc = "built"
    /\ Len(matches) = 3
    /\ PairOf(matches[1]) = PairOf(matches[3]) /\ matches[1] # matches[3]
    /\ PairOf(matches[2]) # PairOf(matches[1])
    /\ iloc(df, matches[1][1]) # iloc(df, matches[1][2])
    /\ Len(filtered_df.rows) = 4

\* C5: the number of rows returned is twice the number of distinct pair
\* keys (min, max) among the matches, and 0 for an empty match list.
OutputLengthIsTwicePairs ==
    pc = "built" =>
        /\ len(filtered_df) =
              2 * Cardinality({<<Min(matches[k][1], matches[k][2]),
                                 Max(matches[k][1], matches[k][2])>> : k \in 1..Len(matches)})
        /\ matches = <<>> => len(filtered_df) = 0

\* More matches than pair keys, and more than one pair key.
OutputLengthIsTwicePairsWitness ==
    /\ pc = "built"
    /\ len(filtered_df) = 4
    /\ Len(matches) = 3
    /\ matches[1][1] = matches[2][2] /\ matches[1][2] = matches[2][1]

----------------------------------------------------------------------------
(* generate_insights, lines 138-185 *)

\* assignment_frequency[assign_val] = assignment_frequency.get(assign_val, 0) + 1,
\* line 152.  The dict is a sequence of <<key, count>> in insertion order: a
\* key already present keeps its place.
count_up(assignment_frequency, assign_val) ==
    IF \E i \in 1..Len(assignment_frequency) : assignment_frequency[i][1] = assign_val
    THEN [i \in 1..Len(assignment_frequency) |->
            IF assignment_frequency[i][1] = assign_val
            THEN <<assign_val, assignment_frequency[i][2] + 1>>
            ELSE assignment_frequency[i]]
    ELSE Append(assignment_frequency, <<assign_val, 1>>)

\* The loop of lines 151-152 from the k-th match on.
RECURSIVE frequency_loop(_, _, _)
frequency_loop(ms, k, assignment_frequency) ==
    IF k > Len(ms) THEN assignment_frequency
    ELSE frequency_loop(ms, k + 1, count_up(assignment_frequency, ms[k][3]))

\* Faulty variant: an item as large as the best so far replaces it.
max_by_count_last(items, k, best) ==
    LET RECURSIVE scan(_, _)
        scan(j, b) == IF j > Len(items) THEN b
                      ELSE IF items[j][2] >= b[2] THEN scan(j + 1, items[j])
                      ELSE scan(j + 1, b)
    IN scan(k, best)

\* max(items, key=lambda x: x[1]), line 154, from the k-th item on: only a
\* strictly larger item replaces the best so far.
RECURSIVE max_by_count(_, _, _)
max_by_count(items, k, best) ==
    IF k > Len(items) THEN best
    ELSE IF items[k][2] > best[2] THEN max_by_count(items, k + 1, items[k])
    ELSE max_by_count(items, k + 1, best)

\* What the call returns, and its local most_frequent.  A quotient of the
\* report is kept as the fraction <<numerator, denominator>>; dividing by 0
\* raises ZeroDivisionError, which the handler of lines 183-185 turns into
\* the returned text.
generate_insights(ms, info) ==
    IF ms = <<>> THEN [most_frequent |-> NoPair, returned |-> [kind |-> "no matches"]]
    ELSE LET unique_assignments == Cardinality({ms[k][3] : k \in 1..Len(ms)})
             unique_memos == Cardinality({ms[k][4] : k \in 1..Len(ms)})
             total_matches == Len(ms)
             assignment_frequency == frequency_loop(ms, 1, <<>>)
             best == IF assignment_frequency # <<>>
                     THEN max_by_count(assignment_frequency, 2, assignment_frequency[1])
                     ELSE <<StrVal(<<"N", "/", "A">>), 0>>
         IN [most_frequent |-> best,
             returned |->
                IF info.total_rows = 0
                THEN [kind |-> "error", error |-> "division by zero"]
                ELSE [kind |-> "report",
                      total_matches |-> total_matches,
                      unique_assignments |-> unique_assignments,
                      unique_memos |-> unique_memos,
                      efficiency |-> <<total_matches * 100, info.total_rows>>,
                      most_frequent |-> best,
                      average |-> <<total_matches, unique_assignments>>,
                      total_rows |-> info.total_rows,
                      output_rows |-> total_matches * 2,
                      matched_pairs |-> total_matches]]

----------------------------------------------------------------------------
(* The summarizer on its own: generate_insights applied to an arbitrary    *)
(* match list and row count.                                               *)

InsightMatches ==
    {<<p[1], p[2], assign_val, memo_val>> :
        p \in {<<0, 1>>, <<1, 0>>},
        assign_val \in {ShortText, IntVal(7), StrVal(<<"a", " ", "b">>)},
        memo_val \in {ShortText, LongText}}

InitInsights ==
    /\ pc = "insights"
    /\ matches \in ListsUpTo(InsightMatches, MaxMatches)
    /\ df_info \in [total_rows : 0..MaxTotalRows]
    /\ most_frequent = NoPair
    /\ insights = NoInsights
    /\ df = NoFrame
    /\ filtered_df = NoFrame
    /\ calls = 0
    /\ text = NaN
    /\ text_str = <<>>
    /\ text_again = <<>>
    /\ validation = NoValidation
    /\ summary = NoSummary
    /\ flashed = "nothing"

Summarize ==
    /\ pc = "insights"
    /\ LET r == generate_insights(matches, df_info)
       IN /\ most_frequent' = r.most_frequent
          /\ insights' = r.returned
    /\ pc' = "summarized"
    /\ UNCHANGED <<text, text_str, text_again, df, calls, matches, filtered_df,
                   df_info, validation, summary, flashed>>

NextInsights == Summarize

SpecInsights == InitInsights /\ [][NextInsights]_vars

\* The number of matches with raw assignment text v, and where v occurs first.
CountOf(v) == Cardinality({k \in 1..Len(matches) : matches[k][3] = v})
FirstOf(v) == CHOOSE k \in 1..Len(matches) :
                 matches[k][3] = v /\ \A j \in 1..(k - 1) : matches[j][3] # v

\* C6: for a non-empty match list the most frequent assignment is the raw
\* assignment text with the greatest number of matches, with that number,
\* and of several texts with the greatest number the one that occurs first
\* in the list; a report carries that pair.
MostFrequentIsFirstMax ==
    (pc = "summarized" /\ matches # <<>>) =>
        /\ \E k \in 1..Len(matches) : matches[k][3] = most_frequent[1]
        /\ most_frequent[2] = CountOf(most_frequent[1])
        /\ \A k \in 1..Len(matches) :
              /\ CountOf(matches[k][3]) <= most_frequent[2]
              /\ CountOf(matches[k][3]) = most_frequent[2]
                    => FirstOf(most_frequent[1]) <= k
        /\ insights.kind = "report" => insights.most_frequent = most_frequent

\* A report on a list of three matches whose texts all differ, so that each
\* occurs once: the text of the first match is reported.
MostFrequentIsFirstMaxWitness ==
    /\ pc = "summarized"
    /\ insights.kind = "report"
    /\ Len(matches) = 3
    /\ matches[1][3] # matches[2][3] /\ matches[3][3] # matches[1][3]
    /\ matches[2][3] # matches[3][3]
    /\ insights.most_frequent = <<matches[1][3], 1>>

\* C7: with a non-empty match list and a total row count of 0, the zero row
\* count is reported as an empty dataset, and no division by zero is
\* attempted.
ZeroRowsIsReportedAsEmptyDataset ==
    (pc = "summarized" /\ matches # <<>> /\ df_info.total_rows = 0) =>
        insights.kind = "empty dataset"

----------------------------------------------------------------------------
(* validate_excel_structure, lines 187-200 *)

\* df.empty: no rows or no columns (line 191).
empty(d) == Len(d.rows) = 0 \/ Len(d.columns) = 0

\* col in df.columns
has_column(d, col) == \E k \in 1..Len(d.columns) : d.columns[k] = col

\* Faulty variant: only 'Assignment' is required.
required_columns_one == <<"Assignment">>

\* required_columns, line 189.
required_columns == <<"Assignment", "Memo Line">>

\* The call's result (ok, message).  The message is kept by its kind and, for
\* "Missing required columns: ... Available columns: ...", the two lists of
\* labels it joins with ", ".
validate_excel_structure(d) ==
    IF empty(d)
    THEN [ok |-> FALSE, kind |-> "empty", missing |-> <<>>, available |-> <<>>]
    ELSE LET missing_columns == SelectSeq(required_columns, LAMBDA col : ~has_column(d, col))
         IN IF missing_columns # <<>>
            THEN [ok |-> FALSE, kind |-> "missing",
                  missing |-> missing_columns, available |-> d.columns]
            ELSE [ok |-> TRUE, kind |-> "valid", missing |-> <<>>, available |-> <<>>]

----------------------------------------------------------------------------
(* The validator on its own: validate_excel_structure applied to a         *)
(* DataFrame with any columns and any number of rows.                      *)

ColumnLabels == {"Assignment", "Memo Line", "Amount", "assignment"}

LabelsOf(list) == {list[k] : k \in 1..Len(list)}

\* The lists of at most k different labels.
RECURSIVE ColumnLists(_)
ColumnLists(k) ==
    IF k = 0 THEN {<<>>}
    ELSE LET shorter == ColumnLists(k - 1)
         IN shorter \cup
            UNION {{Append(l, c) : c \in ColumnLabels \ LabelsOf(l)} :
                      l \in {t \in shorter : Len(t) = k - 1}}

\* d has at most MaxCols columns and at most MaxRows rows of the same cell;
\* a sheet without header has neither columns nor rows.
IsValidatorFrame(d) ==
    \E columns \in ColumnLists(MaxCols) : \E n \in 0..MaxRows :
        /\ columns = <<>> => n = 0
        /\ \E rows \in [1..n -> [LabelsOf(columns) -> {ShortText}]] :
              d = [columns |-> columns, rows |-> rows]

InitValidate ==
    /\ pc = "validate"
    /\ IsValidatorFrame(df)
    /\ validation = NoValidation
    /\ matches = <<>>
    /\ filtered_df = NoFrame
    /\ df_info = NoInfo
    /\ most_frequent = NoPair
    /\ insights = NoInsights
    /\ calls = 0
    /\ text = NaN
    /\ text_str = <<>>
    /\ text_again = <<>>
    /\ summary = NoSummary
    /\ flashed = "nothing"

Validate ==
    /\ pc = "validate"
    /\ validation' = validate_excel_structure(df)
    /\ pc' = "validated"
    /\ UNCHANGED <<text, text_str, text_again, df, calls, matches, filtered_df,
                   df_info, most_frequent, insights, summary, flashed>>

NextValidate == Validate

SpecValidate == InitValidate /\ [][NextValidate]_vars

Lacking(d) == {"Assignment", "Memo Line"} \ LabelsOf(d.columns)

----------------------------------------------------------------------------
(* upload_file, lines 385-510, from the point where pd.read_excel has      *)
(* returned the DataFrame (line 414): one action per call it makes.        *)

\* What a sheet can hold: any columns, or the two required ones with the
\* cells the matcher is tried on.
IsUploadFrame(d) == IsValidatorFrame(d) \/ IsMatcherFrame(d)

Init ==
    /\ pc = "read"
    /\ IsUploadFrame(df)
    /\ validation = NoValidation
    /\ calls = 0
    /\ matches = <<>>
    /\ filtered_df = NoFrame
    /\ summary = NoSummary
    /\ df_info = NoInfo
    /\ most_frequent = NoPair
    /\ insights = NoInsights
    /\ flashed = "nothing"
    /\ text = NaN
    /\ text_str = <<>>
    /\ text_again = <<>>

\* Lines 422-428: the structure is validated; a failure is flashed and the
\* request ends with a redirect.
UploadValidate ==
    /\ pc = "read"
    /\ validation' = validate_excel_structure(df)
    /\ IF validation'.ok
       THEN pc' = "match" /\ flashed' = flashed
       ELSE pc' = "redirected" /\ flashed' = validation'.kind
    /\ UNCHANGED <<text, text_str, text_again, df, calls, matches, filtered_df,
                   df_info, most_frequent, insights, summary>>

\* Faulty variant: the request goes on to the output when no match was found.
UploadMatchGoesOn ==
    /\ pc = "match"
    /\ LET r == find_assignment_matches(df)
       IN /\ matches' = r.matches
          /\ df' = r.df
    /\ calls' = calls + 1
    /\ pc' = "output"
    /\ UNCHANGED <<text, text_str, text_again, filtered_df, df_info,
                   most_frequent, insights, validation, summary, flashed>>

\* Lines 431-437: the matcher runs; no match is flashed and the request ends
\* with a redirect.
UploadMatch ==
    /\ pc = "match"
    /\ LET r == find_assignment_matches(df)
       IN /\ matches' = r.matches
          /\ df' = r.df
    /\ calls' = calls + 1
    /\ IF matches' = <<>>
       THEN pc' = "redirected" /\ flashed' = "no matches"
       ELSE pc' = "output" /\ flashed' = flashed
    /\ UNCHANGED <<text, text_str, text_again, filtered_df, df_info,
                   most_frequent, insights, validation, summary>>

\* Line 440.
UploadBuildOutput ==
    /\ pc = "output"
    /\ filtered_df' = create_filtered_output(df, matches)
    /\ pc' = "save"
    /\ UNCHANGED <<text, text_str, text_again, df, calls, matches, df_info,
                   most_frequent, insights, validation, summary, flashed>>

\* Lines 442-468: the output file is written, with its Summary sheet.
UploadSave ==
    /\ pc = "save"
    /\ summary' = [written |-> TRUE,
                   total_input_rows |-> len(df),
                   total_matches |-> Len(matches),
                   output_rows |-> len(filtered_df)]
    /\ pc' = "insights"
    /\ UNCHANGED <<text, text_str, text_again, df, calls, matches, filtered_df,
                   df_info, most_frequent, insights, validation, flashed>>

\* Lines 472-493: the insights are generated and success is flashed.
UploadInsights ==
    /\ pc = "insights"
    /\ df_info' = [total_rows |-> len(df)]
    /\ LET r == generate_insights(matches, df_info')
       IN /\ most_frequent' = r.most_frequent
          /\ insights' = r.returned
    /\ flashed' = "success"
    /\ pc' = "done"
    /\ UNCHANGED <<text, text_str, text_again, df, calls, matches, filtered_df,
                   validation, summary>>

Next ==
    \/ UploadValidate
    \/ UploadMatch
    \/ UploadBuildOutput
    \/ UploadSave
    \/ UploadInsights

Spec == Init /\ [][Next]_vars

\* C11: an output file is written only after validate_excel_structure
\* returned ok and find_assignment_matches returned a non-empty list.  A
\* DataFrame that fails validation never reaches the matcher; a run with no
\* match ends with the notice, and create_filtered_output, the writing of the
\* file and generate_insights are not reached.
OutputOnlyAfterValidMatches ==
    /\ pc = "match" => (validation.ok /\ calls = 0)
    /\ pc \in {"output", "save", "insights", "done"} =>
          (validation.ok /\ calls = 1 /\ matches # <<>>)
    /\ summary.written => (validation.ok /\ calls = 1 /\ matches # <<>>)
    /\ (pc = "redirected" /\ ~validation.ok) =>
          /\ calls = 0 /\ matches = <<>>
          /\ flashed = validation.kind
    /\ (pc = "redirected" /\ validation.ok) =>
          /\ calls = 1 /\ matches = <<>>
          /\ flashed = "no matches"
    /\ pc = "redirected" =>
          /\ filtered_df = NoFrame
          /\ ~summary.written
          /\ insights = NoInsights
          /\ most_frequent = NoPair

\* A valid sheet of at least two rows, one of them with an Assignment, ended
\* with the notice that nothing matched.
OutputOnlyAfterValidMatchesWitness ==
    /\ pc = "redirected"
    /\ validation.ok
    /\ flashed = "no matches"
    /\ len(df) >= 2
    /\ \E i \in RowIndexes(df) : Normal(df, i, "Assignment") # <<>>

\* C13: when output was produced, the 'Output rows (paired)' figure of the
\* insights equals the number of rows of the table create_filtered_output
\* built, which is the 'Output Rows (Pairs)' value of the Summary sheet, and
\* the number of matched pairs the insights announce is the number of pairs
\* of that table.
ReportedOutputRowsAreActual ==
    (pc = "done" /\ insights.kind = "report") =>
        /\ insights.output_rows = len(filtered_df)
        /\ insights.output_rows = summary.output_rows
        /\ 2 * insights.matched_pairs = len(filtered_df)

=============================================================================
